---------------------------- MODULE Spec2Model ----------------------------
(***************************************************************************)
(* A model of run_crawl.py: the per-seed render/fallback fetch, the page   *)
(* loop (Frontier check, policy evaluation, classification, persistence,   *)
(* file-link download), the Frontier checkpoints, and the ways a run stops *)
(* (normal end, unhandled exception, interrupt) followed by a later run.   *)
(*                                                                         *)
(* A URL is a record [host, path, ext]: host is the sequence of the        *)
(* netloc's labels, path the sequence of path segments, ext the suffix     *)
(* the URL string ends with ("" when none of interest).  A relative link   *)
(* has the empty host.  A content-type is NoCT (None or "") or the set of  *)
(* the markers its lower-cased string contains.                            *)
(***************************************************************************)
EXTENDS Naturals, Sequences, FiniteSets

\* ------------------------------------------------------------ bounds
\* Number of runs of the program in one behaviour (a run, then restarts).
MaxRuns == 2
\* The Frontier checkpoint interval.  The code's interval is 100
\* (run_crawl.py line 441); the model scales it down so that a run over a
\* handful of pages reaches it.
CheckpointEvery == 2
\* Longest out_links field of a page handed to page_links on its own.
MaxLinks == 2
\* Longest seed list handed to expand_seeds_via_sitemap.
MaxSeeds == 2

\* ------------------------------------------------------------ values
NoCT == {"<None>"}
NoUrl == [host |-> <<>>, path |-> <<>>, ext |-> "none"]
NoText == "None"

HostUit == <<"uit", "edu", "vn">>
HostCdn == <<"cdn", "uit", "edu", "vn">>
HostOther == <<"other", "org">>

uA == [host |-> HostUit, path |-> <<"docs", "a">>, ext |-> ""]
uY == [host |-> HostUit, path |-> <<"docs", "archive", "y">>, ext |-> ""]
uZ == [host |-> HostOther, path |-> <<"docs", "archive", "z">>, ext |-> ""]
uP == [host |-> HostCdn, path |-> <<"files", "p">>, ext |-> ".pdf"]
uQ == [host |-> HostOther, path |-> <<"files", "q">>, ext |-> ".pdf"]
\* links as they appear on a page: root-relative, absolute, not file-like
lRelB == [host |-> <<>>, path |-> <<"files", "b">>, ext |-> ".pdf"]
lAbsX == [host |-> HostOther, path |-> <<"docs", "archive", "x">>, ext |-> ".docx"]
lNav == [host |-> <<>>, path |-> <<"docs", "a">>, ext |-> ""]

\* ------------------------------------------------------------ helpers
\* safe_filename: the first 16 hex digits of sha1(url) followed by ext.  The
\* digest depends on the URL alone and tells the model's URLs apart.
Sha1Hex16(url) == [sha1 |-> url]

safe_filename(url, ext) == [hash |-> Sha1Hex16(url), suffix |-> <<ext>>]

\* f"{f_name}.json": the sidecar beside a saved file keeps the file's extension.
WithJson(f_name) == [f_name EXCEPT !.suffix = @ \o <<".json">>]

pick_ext_by_ct_htmlfirst(content_type) ==
    IF content_type = NoCT THEN ".bin"
    ELSE IF "html" \in content_type THEN ".html"
    ELSE IF "pdf" \in content_type THEN ".pdf"
    ELSE IF "msword" \in content_type \/ "officedocument.wordprocessingml" \in content_type
         THEN ".docx"
    ELSE IF "spreadsheet" \in content_type \/ "excel" \in content_type THEN ".xlsx"
    ELSE IF "presentation" \in content_type \/ "powerpoint" \in content_type THEN ".pptx"
    ELSE ".bin"

pick_ext_by_ct(content_type) ==
    IF content_type = NoCT THEN ".bin"
    ELSE IF "pdf" \in content_type THEN ".pdf"
    ELSE IF "msword" \in content_type \/ "officedocument.wordprocessingml" \in content_type
         THEN ".docx"
    ELSE IF "html" \in content_type THEN ".html"
    ELSE IF "spreadsheet" \in content_type \/ "excel" \in content_type THEN ".xlsx"
    ELSE IF "presentation" \in content_type \/ "powerpoint" \in content_type THEN ".pptx"
    ELSE ".bin"

\* The URL string as a sequence of tokens, for pattern search.
Tokens(url) == url.host \o url.path

\* re.search(p, url) for a pattern p that is a literal fragment: p occurs in
\* the URL as a run of consecutive tokens.
ReSearch(p, url) ==
    LET t == Tokens(url)
    IN  \E i \in 0..Len(t) :
            /\ i + Len(p) <= Len(t)
            /\ \A k \in 1..Len(p) : t[i + k] = p[k]

AnySeq(s, P(_)) == \E i \in 1..Len(s) : P(s[i])

is_allowed_orbad(url, include, exclude) ==
    LET ok == IF include # <<>> THEN AnySeq(include, LAMBDA p : ReSearch(p, url)) ELSE TRUE
        bad == IF exclude # <<>> THEN AnySeq(exclude, LAMBDA p : ReSearch(p, url)) ELSE FALSE
    IN  ok \/ ~bad

is_allowed(url, include, exclude) ==
    LET ok == IF include # <<>> THEN AnySeq(include, LAMBDA p : ReSearch(p, url)) ELSE TRUE
        bad == IF exclude # <<>> THEN AnySeq(exclude, LAMBDA p : ReSearch(p, url)) ELSE FALSE
    IN  ok /\ ~bad

\* host.endswith("." + d): d is a proper suffix of the host's labels.
EndsWithDot(host, d) ==
    /\ Len(host) > Len(d)
    /\ \A k \in 1..Len(d) : host[Len(host) - Len(d) + k] = d[k]

allowed_by_domain(url, allowed_domains) ==
    AnySeq(allowed_domains, LAMBDA d : url.host = d \/ EndsWithDot(url.host, d))

looks_like_file(url, extensions) == url.ext \in extensions

\* urljoin(base, link): an absolute link stands; a root-relative one takes
\* the base's scheme and netloc.
urljoin(base, link) ==
    IF link.host # <<>> THEN link
    ELSE [host |-> base.host, path |-> link.path, ext |-> link.ext]


\* ------------------------------------------------------------ pages
\* A page object: url (NoUrl when the attribute is missing), status,
\* content_type, the attributes html, content and markdown that
\* page_html_text probes (NoText: absent; "": blank; content holds bytes:
\* "bytes_text" decodes to text, "bytes_blank" is a non-empty body that decodes
\* to nothing), the native link fields out_links and links, and hrefs, the
\* href/src values the pattern scan finds in the page's HTML text.
Page(url, ct, html, content, out_links, hrefs) ==
    [url |-> url, status |-> 200, content_type |-> ct, html |-> html,
     content |-> content, markdown |-> NoText,
     out_links |-> out_links, links |-> <<>>, hrefs |-> hrefs]

page_content_type(page) == page.content_type

page_html_text(page) ==
    IF page.html \notin {NoText, ""} THEN page.html
    ELSE IF page.content = "bytes_text" THEN "decoded"
    ELSE IF page.markdown \notin {NoText, ""} THEN "pre"
    ELSE NoText

page_is_html(page) ==
    \/ page_html_text(page) # NoText
    \/ LET ct == page_content_type(page) IN ct # NoCT /\ "html" \in ct

RECURSIVE Dedup(_, _)
Dedup(cands, seenl) ==
    IF cands = <<>> THEN <<>>
    ELSE LET u == Head(cands)
         IN  IF u.ext \in {"blank", "nonstr"} \/ u \in seenl
             THEN Dedup(Tail(cands), seenl)
             ELSE <<u>> \o Dedup(Tail(cands), seenl \cup {u})

page_links(page) ==
    LET native == page.out_links \o page.links
        scanned == IF page_html_text(page) # NoText THEN page.hrefs ELSE <<>>
    IN  Dedup(native \o scanned, {})

normalize_pages(res) ==
    IF res.kind = "none" THEN <<>>
    ELSE IF res.kind \in {"list", "pages", "results"} THEN res.items
    ELSE <<res.items[1]>>

RECURSIVE SelectSeq2(_, _)
SelectSeq2(s, exts) ==
    IF s = <<>> THEN <<>>
    ELSE IF looks_like_file(Head(s), exts) THEN <<Head(s)>> \o SelectSeq2(Tail(s), exts)
    ELSE SelectSeq2(Tail(s), exts)

\* ------------------------------------------------------------ inputs
pA == Page(uA, {"html"}, "T", NoText, <<lRelB, lAbsX, lNav>>, <<lRelB>>)
pY == Page(uY, {"html"}, NoText, NoText, <<>>, <<>>)
\* the _PseudoPage of uA when the GET answers without a Content-Type header
pAFallback == Page(uA, NoCT, "T", NoText, <<>>, <<>>)
pP == Page(uP, {"pdf"}, NoText, NoText, <<>>, <<>>)
pQ == Page(uQ, {"pdf"}, NoText, "bytes_blank", <<>>, <<>>)
pN == Page(NoUrl, NoCT, "T", NoText, <<>>, <<>>)

Seeds == <<uA, uP>>

Policies ==
    { [include |-> << <<"docs">> >>, exclude |-> << <<"docs", "archive">> >>,
       allowed_domains |-> <<HostUit>>, file_exts |-> {".pdf", ".doc", ".docx"}],
      [include |-> <<>>, exclude |-> << <<"archive", "y">> >>,
       allowed_domains |-> <<>>, file_exts |-> {".pdf", ".doc", ".docx"}] }

\* What crawler.arun may give for a seed: an exception, None, a list, a
\* container with a pages or results attribute, or a single page object.
RenderResults(seed) ==
    IF seed = uA
    THEN { [kind |-> "raise", items |-> <<>>],
           [kind |-> "none", items |-> <<>>],
           [kind |-> "list", items |-> <<pA, pA, pY>>],
           [kind |-> "single", items |-> <<pY>>] }
    ELSE { [kind |-> "raise", items |-> <<>>],
           [kind |-> "results", items |-> <<>>],
           [kind |-> "pages", items |-> <<pP, pQ, pN>>] }

\* What the fallback GET may give for a seed: None (an exception), or a
\* _PseudoPage of the seed's URL.
NoPage == Page(NoUrl, NoCT, NoText, NoText, <<>>, <<>>)

FallbackResults(seed) ==
    IF seed = uA
    THEN { NoPage, pAFallback }
    ELSE { NoPage, Page(seed, {"pdf"}, "", NoText, <<>>, <<>>) }

\* What download_file may return: (b"", None, None) on an exception, or the
\* body (possibly empty), the content-type and the status.
NoDownload == [content |-> "", ctype |-> NoCT, status |-> 0]

DownloadResults(url) ==
    IF url = urljoin(uA, lRelB)
    THEN { NoDownload,
           [content |-> "", ctype |-> {"msword"}, status |-> 200],
           [content |-> "body", ctype |-> {"pdf"}, status |-> 200] }
    ELSE IF url = lAbsX
    THEN { [content |-> "body", ctype |-> NoCT, status |-> 200] }
    ELSE { NoDownload,
           [content |-> "", ctype |-> {"pdf"}, status |-> 200],
           [content |-> "body", ctype |-> {"pdf"}, status |-> 200],
           [content |-> "body", ctype |-> NoCT, status |-> 200] }

\* ------------------------------------------------------------ state
VARIABLES
    policy,         \* the scope configuration of domains.yaml
    run,            \* which run of the program this is
    pc,             \* position of main
    seenDisk,       \* logs/seen.json: [state, urls]
    seen,           \* the in-memory Frontier
    fetched_count, file_count, html_count,
    seedIdx,        \* index of the current seed
    pages,          \* the pages of the current seed
    pageIdx,        \* index of the current page
    html_path,      \* html_path of the current page (NoPath: None)
    out_links,      \* out_links of the current page
    todo,           \* file links of the current page still to download
    dl,             \* (content, ctype, status) in hand
    htmlFiles,      \* names under output_raw/html
    binFiles,       \* names under output_raw/files
    metaFiles,      \* sidecars under output_raw/meta: records with a name
    log,            \* lines appended to logs/crawl.log since the seed began
    \* history, read by the properties only
    fetch,          \* per seed: render and fallback attempts, their outcome
    seedSnap,       \* the counters, Frontier and stores when the seed began
    effects,        \* side effects of the seed's latest accepted page:
                    \* [owner, kind, target]
    verdict,        \* the latest policy verdict: [url, accepted]
    skipped,        \* the latest page skipped: [url, why]
    cur,            \* the seed's latest accepted page: [url, sidecars, ended, gets,
                    \* files]: whether its processing has ended,
                    \* sidecars written for it, GETs of its own URL, file_count
                    \* when it was accepted
    ckpts,          \* Frontier write attempts of this run: [periodic, final]
    seenLoaded,     \* the Frontier as loaded at startup
    processed,      \* the URLs this run has processed so far
    processedBefore, \* the URLs earlier runs processed
    \* a helper function at work on a drawn input (the function runs only)
    fn              \* [name, ct, page, seeds, root, path, extra, last, before,
                    \*  probes, ext, list, done]

prog == <<policy, run, pc, seenDisk, seen, fetched_count, file_count, html_count,
          seedIdx, pages, pageIdx, html_path, out_links, todo, dl,
          htmlFiles, binFiles, metaFiles, log,
          fetch, seedSnap, effects, verdict, skipped, cur, ckpts, seenLoaded,
          processed, processedBefore>>

vars == <<prog, fn>>

mem == <<seen, fetched_count, file_count, html_count>>
loopv == <<seedIdx, pages, pageIdx, html_path, out_links, todo, dl>>
store == <<htmlFiles, binFiles, metaFiles>>
hist == <<fetch, seedSnap, effects, verdict, skipped, cur, ckpts, seenLoaded, processed, processedBefore>>

NoPath == [hash |-> Sha1Hex16(NoUrl), suffix |-> <<>>]
NoFn == [name |-> "none", ct |-> NoCT, page |-> NoPage, seeds |-> <<>>, root |-> 1,
         path |-> 1, extra |-> <<>>, last |-> "none", before |-> 0, probes |-> 0,
         ext |-> "", list |-> <<>>, done |-> FALSE]
NoFetch == [render |-> 0, fallback |-> 0, outcome |-> "none", skipped |-> FALSE]
NoCur == [url |-> NoUrl, sidecars |-> 0, ended |-> FALSE, gets |-> 0, files |-> 0]
NoVerdict == [url |-> NoUrl, accepted |-> FALSE]
NoSkip == [url |-> NoUrl, why |-> "none"]
NoSnap == [seen |-> {}, counts |-> <<0, 0, 0>>, store |-> <<{}, {}, {}>>]

Snap == [seen |-> seen, counts |-> <<fetched_count, file_count, html_count>>,
         store |-> <<htmlFiles, binFiles, metaFiles>>]

Running == pc \notin {"done", "aborted", "interrupted"}

CurPage == pages[pageIdx]

Effect(owner, kind, target) == [owner |-> owner, kind |-> kind, target |-> target]

LogLine(kind, url) == [kind |-> kind, url |-> url]

\* Path.write_text / write_bytes on a sidecar: the record replaces whatever
\* the name held.
WriteMeta(files, rec) == {m \in files : m.name # rec.name} \cup {rec}

PageMetaNoLinks(name, url, status, ct, file_path, hpath, links, notes) ==
    [name |-> name, url |-> url, status |-> status, content_type |-> ct,
     file_path |-> file_path, html_path |-> hpath, out_links |-> <<>>,
     notes |-> notes]

PageMeta(name, url, status, ct, file_path, hpath, links, notes) ==
    [name |-> name, url |-> url, status |-> status, content_type |-> ct,
     file_path |-> file_path, html_path |-> hpath, out_links |-> links,
     notes |-> notes]

\* The run has accepted the URL and produced an artifact or a sidecar for it.
NowProcessed(url) == processed \cup {url}

ProgInit ==
    /\ policy \in Policies
    /\ run = 1
    /\ pc = "load"
    /\ seenDisk = [state |-> "none", urls |-> {}]
    /\ seen = {}
    /\ fetched_count = 0 /\ file_count = 0 /\ html_count = 0
    /\ seedIdx = 1 /\ pages = <<>> /\ pageIdx = 1
    /\ html_path = NoPath /\ out_links = <<>> /\ todo = <<>> /\ dl = NoDownload
    /\ htmlFiles = {} /\ binFiles = {} /\ metaFiles = {}
    /\ log = <<>>
    /\ fetch = NoFetch /\ seedSnap = NoSnap /\ effects = {} /\ verdict = NoVerdict
    /\ skipped = NoSkip /\ cur = NoCur
    /\ ckpts = [periodic |-> 0, final |-> 0]
    /\ seenLoaded = {} /\ processed = {} /\ processedBefore = {}

Init == ProgInit /\ fn = NoFn

\* ------------------------------------------------------------ startup
\* lines 282-288: seen.json missing or unreadable leaves the empty set.
LoadedSeen(disk) == IF disk.state = "ok" THEN disk.urls ELSE {}

LoadSeen ==
    /\ pc = "load"
    /\ seen' = LoadedSeen(seenDisk)
    /\ seenLoaded' = LoadedSeen(seenDisk)
    /\ pc' = "seed"
    /\ UNCHANGED <<fn, policy, run, seenDisk, fetched_count, file_count, html_count,
                   loopv, store, log, fetch, seedSnap, effects, verdict, skipped,
                   cur, ckpts, processed, processedBefore>>


\* ------------------------------------------------------------ fetch stage
\* line 307: "if not pages".
NeedsFallbackAlways(pgs) == TRUE

NeedsFallback(pgs) == pgs = <<>>

AfterRender(pgs) == IF NeedsFallback(pgs) THEN "fallback" ELSE "pages"

\* lines 294-298: crawler.arun(seed) returns; its result is normalized.
Render ==
    /\ pc = "seed" /\ seedIdx <= Len(Seeds)
    /\ \E r \in RenderResults(Seeds[seedIdx]) :
        /\ r.kind # "raise"
        /\ pages' = normalize_pages(r)
        /\ pc' = AfterRender(normalize_pages(r))
        /\ fetch' = [fetch EXCEPT !.render = @ + 1,
                     !.outcome = IF normalize_pages(r) = <<>> THEN "empty" ELSE "pages"]
    /\ pageIdx' = 1
    /\ seedSnap' = Snap
    /\ log' = <<>> /\ effects' = {} /\ cur' = NoCur
    /\ UNCHANGED <<fn, policy, run, seenDisk, mem, seedIdx, html_path, out_links, todo, dl,
                   store, verdict, skipped, ckpts, seenLoaded,
                   processed, processedBefore>>

\* lines 297, 299-301: crawler.arun(seed) raises.
RenderRaises ==
    /\ pc = "seed" /\ seedIdx <= Len(Seeds)
    /\ [kind |-> "raise", items |-> <<>>] \in RenderResults(Seeds[seedIdx])
    /\ pages' = <<>>
    /\ pageIdx' = 1
    /\ pc' = "render_log"
    /\ fetch' = [fetch EXCEPT !.render = @ + 1, !.outcome = "raised"]
    /\ seedSnap' = Snap
    /\ log' = <<>> /\ effects' = {} /\ cur' = NoCur
    /\ UNCHANGED <<fn, policy, run, seenDisk, mem, seedIdx, html_path, out_links, todo, dl,
                   store, verdict, skipped, ckpts, seenLoaded,
                   processed, processedBefore>>

\* lines 303-304: the PlaywrightError line; the open or the write may raise,
\* and nothing catches it.
RenderLog ==
    /\ pc = "render_log"
    /\ \/ /\ log' = Append(log, LogLine("PlaywrightError", Seeds[seedIdx]))
          /\ pc' = AfterRender(pages)
       \/ /\ pc' = "aborted"
          /\ log' = log
    /\ UNCHANGED <<fn, policy, run, seenDisk, mem, loopv, store, hist>>

\* lines 307-314: one GET of the seed; None on any exception.
Fallback ==
    /\ pc = "fallback"
    /\ \E fp \in FallbackResults(Seeds[seedIdx]) :
        /\ pages' = IF fp # NoPage THEN <<fp>> ELSE <<>>
        /\ fetch' = [fetch EXCEPT !.fallback = @ + 1, !.skipped = (fp = NoPage)]
    /\ pageIdx' = 1
    /\ pc' = "pages"
    /\ UNCHANGED <<fn, policy, run, seenDisk, mem, seedIdx, html_path, out_links, todo, dl,
                   store, log, seedSnap, effects, verdict, skipped, cur, ckpts,
                   seenLoaded, processed, processedBefore>>

\* line 318: the page loop of the seed is exhausted; on to the next seed.
SeedDone ==
    /\ pc = "pages" /\ pageIdx > Len(pages)
    /\ seedIdx' = seedIdx + 1
    /\ pc' = "seed"
    /\ fetch' = NoFetch
    /\ UNCHANGED <<fn, policy, run, seenDisk, mem, pages, pageIdx, html_path, out_links,
                   todo, dl, store, log, seedSnap, effects, verdict, skipped, cur, ckpts,
                   seenLoaded, processed, processedBefore>>


\* ------------------------------------------------------------ page loop
\* line 323: "if url in seen".
AlreadySeenNever(url, frontier) == FALSE

AlreadySeen(url, frontier) == url \in frontier

\* lines 327-331: the pattern check, then the allowed-domain override.
PolicyAllowed(url, pol) ==
    LET allowed == is_allowed(url, pol.include, pol.exclude)
    IN  IF ~allowed /\ allowed_by_domain(url, pol.allowed_domains) THEN TRUE ELSE allowed

\* line 335: seen.add(url).
SeenAddForgotten(frontier, url) == frontier

SeenAddAlone(frontier, url) == {url}

SeenAdd(frontier, url) == frontier \cup {url}

\* lines 340-342: the HTML text decides whether a body is written.
AfterHtmlTextBodyOnly(html_text) == IF html_text # "" THEN "html_write" ELSE "links"

AfterHtmlText(html_text) == IF html_text # "" THEN "html_write" ELSE "page_meta"

HtmlTextOr(page) == IF page_html_text(page) = NoText THEN "" ELSE page_html_text(page)

\* lines 395, 398: getattr(page, "content", None) or b"" is non-empty.
HasBody(page) == page.content \notin {NoText, ""}

RouteAlwaysDownload(page) ==
    IF page_is_html(page) THEN AfterHtmlText(HtmlTextOr(page))
    ELSE "direct_download"

\* lines 339, 395-398: where an accepted page goes.
Route(page) ==
    IF page_is_html(page) THEN AfterHtmlText(HtmlTextOr(page))
    ELSE IF HasBody(page) THEN "direct_save"
    ELSE "direct_download"

\* lines 319-322: the page object has no url.
SkipMissing ==
    /\ pc = "pages" /\ pageIdx <= Len(pages)
    /\ CurPage.url = NoUrl
    /\ pageIdx' = pageIdx + 1
    /\ skipped' = [url |-> NoUrl, why |-> "missing"]
    /\ UNCHANGED <<fn, policy, run, pc, seenDisk, mem, seedIdx, pages, html_path, out_links,
                   todo, dl, store, log, fetch, seedSnap, effects, verdict, cur, ckpts,
                   seenLoaded, processed, processedBefore>>

\* lines 323-325: the URL is in the Frontier.
SkipSeen ==
    /\ pc = "pages" /\ pageIdx <= Len(pages)
    /\ CurPage.url # NoUrl
    /\ AlreadySeen(CurPage.url, seen)
    /\ pageIdx' = pageIdx + 1
    /\ skipped' = [url |-> CurPage.url, why |-> "seen"]
    /\ UNCHANGED <<fn, policy, run, pc, seenDisk, mem, seedIdx, pages, html_path, out_links,
                   todo, dl, store, log, fetch, seedSnap, effects, verdict, cur, ckpts,
                   seenLoaded, processed, processedBefore>>

\* lines 327-333: the policy rejects the URL.
SkipFiltered ==
    /\ pc = "pages" /\ pageIdx <= Len(pages)
    /\ CurPage.url # NoUrl
    /\ ~AlreadySeen(CurPage.url, seen)
    /\ ~PolicyAllowed(CurPage.url, policy)
    /\ pageIdx' = pageIdx + 1
    /\ verdict' = [url |-> CurPage.url, accepted |-> FALSE]
    /\ skipped' = [url |-> CurPage.url, why |-> "filtered"]
    /\ UNCHANGED <<fn, policy, run, pc, seenDisk, mem, seedIdx, pages, html_path, out_links,
                   todo, dl, store, log, fetch, seedSnap, effects, cur, ckpts,
                   seenLoaded, processed, processedBefore>>

\* lines 327-342 and 394-398: the policy accepts the URL; it enters the
\* Frontier, the counter moves, and the page is classified.
Accept ==
    /\ pc = "pages" /\ pageIdx <= Len(pages)
    /\ CurPage.url # NoUrl
    /\ ~AlreadySeen(CurPage.url, seen)
    /\ PolicyAllowed(CurPage.url, policy)
    /\ seen' = SeenAdd(seen, CurPage.url)
    /\ fetched_count' = fetched_count + 1
    /\ pc' = Route(CurPage)
    /\ html_path' = NoPath
    /\ out_links' = <<>>
    /\ todo' = <<>>
    /\ dl' = IF ~page_is_html(CurPage) /\ HasBody(CurPage)
             THEN [content |-> CurPage.content, ctype |-> page_content_type(CurPage),
                   status |-> CurPage.status]
             ELSE NoDownload
    /\ verdict' = [url |-> CurPage.url, accepted |-> TRUE]
    /\ effects' = {}
    /\ cur' = [url |-> CurPage.url, sidecars |-> 0, ended |-> FALSE, gets |-> 0,
               files |-> file_count]
    /\ UNCHANGED <<fn, policy, run, seenDisk, file_count, html_count, seedIdx, pages, pageIdx,
                   store, log, fetch, seedSnap, skipped, ckpts, seenLoaded,
                   processed, processedBefore>>


\* ------------------------------------------------------------ HTML path
\* lines 343-346: the body is written; a raised write is caught nowhere.
HtmlWrite ==
    /\ pc = "html_write"
    /\ \/ /\ htmlFiles' = htmlFiles \cup {safe_filename(CurPage.url, ".html")}
          /\ html_path' = safe_filename(CurPage.url, ".html")
          /\ html_count' = html_count + 1
          /\ effects' = effects \cup {Effect(CurPage.url, "html", CurPage.url)}
          /\ processed' = NowProcessed(CurPage.url)
          /\ pc' = "page_meta"
       \/ /\ pc' = "aborted"
          /\ UNCHANGED <<htmlFiles, html_path, html_count, effects, processed>>
    /\ UNCHANGED <<fn, policy, run, seenDisk, seen, fetched_count, file_count, seedIdx, pages,
                   pageIdx, out_links, todo, dl, binFiles, metaFiles, log, fetch, seedSnap,
                   verdict, skipped, cur, ckpts, seenLoaded, processedBefore>>

\* lines 348-364: the links are harvested, the page's sidecar is written and
\* the file-like links are selected.
PageMetaWrite ==
    /\ pc = "page_meta"
    /\ out_links' = page_links(CurPage)
    /\ \/ /\ metaFiles' = WriteMeta(metaFiles,
                PageMeta(safe_filename(CurPage.url, ".json"), CurPage.url, CurPage.status,
                         page_content_type(CurPage), NoPath, html_path,
                         page_links(CurPage), ""))
          /\ effects' = effects \cup {Effect(CurPage.url, "meta", CurPage.url)}
          /\ processed' = NowProcessed(CurPage.url)
          /\ cur' = [cur EXCEPT !.sidecars = @ + 1]
          /\ todo' = SelectSeq2(page_links(CurPage), policy.file_exts)
          /\ pc' = "links"
       \/ /\ pc' = "aborted"
          /\ UNCHANGED <<metaFiles, effects, processed, cur, todo>>
    /\ UNCHANGED <<fn, policy, run, seenDisk, mem, seedIdx, pages, pageIdx, html_path, dl,
                   htmlFiles, binFiles, log, fetch, seedSnap, verdict, skipped, ckpts,
                   seenLoaded, processedBefore>>

\* line 370: "if not content" after the download of a file link.
AfterDownloadSaveAll(content) == "dl_save"

AfterDownload(content) == IF content = "" THEN "dl_log" ELSE "dl_save"

\* lines 365-369: the next file link is resolved against the page URL and
\* fetched; download_file never raises.
Download ==
    /\ pc = "links" /\ todo # <<>>
    /\ \E r \in DownloadResults(urljoin(CurPage.url, Head(todo))) :
        /\ dl' = r
        /\ pc' = AfterDownload(r.content)
        /\ effects' = effects \cup
              {Effect(CurPage.url, IF r.content = "" THEN "linkempty" ELSE "linkbody",
                      urljoin(CurPage.url, Head(todo))),
               Effect(CurPage.url, "download", urljoin(CurPage.url, Head(todo)))}
    /\ UNCHANGED <<fn, policy, run, seenDisk, mem, seedIdx, pages, pageIdx, html_path,
                   out_links, todo, store, log, fetch, seedSnap, verdict, skipped, cur,
                   ckpts, seenLoaded, processed, processedBefore>>

\* lines 370-373: an empty body gets a FileError line and nothing else.
DlLog ==
    /\ pc = "dl_log"
    /\ \/ /\ log' = Append(log, LogLine("FileError", urljoin(CurPage.url, Head(todo))))
          /\ effects' = effects \cup
                {Effect(CurPage.url, "linklog", urljoin(CurPage.url, Head(todo)))}
          /\ todo' = Tail(todo)
          /\ pc' = "links"
       \/ /\ pc' = "aborted"
          /\ UNCHANGED <<log, effects, todo>>
    /\ UNCHANGED <<fn, policy, run, seenDisk, mem, seedIdx, pages, pageIdx, html_path,
                   out_links, dl, store, fetch, seedSnap, verdict, skipped, cur, ckpts,
                   seenLoaded, processed, processedBefore>>

\* lines 374-391: the body, then the link's sidecar, then the counter.
DlSave ==
    /\ pc = "dl_save"
    /\ LET f_url == urljoin(CurPage.url, Head(todo))
           f_name == safe_filename(f_url, pick_ext_by_ct(dl.ctype))
           f_file == Effect(CurPage.url, "linkfile", f_url)
           f_meta == Effect(CurPage.url, "linkmeta", f_url)
           rec == PageMeta(WithJson(f_name), f_url, dl.status, dl.ctype, f_name,
                           NoPath, <<>>, "discovered")
       IN  \/ /\ binFiles' = binFiles \cup {f_name}
              /\ metaFiles' = WriteMeta(metaFiles, rec)
              /\ file_count' = file_count + 1
              /\ effects' = effects \cup {f_file, f_meta}
              /\ todo' = Tail(todo)
              /\ pc' = "links"
           \/ /\ binFiles' = binFiles \cup {f_name}
              /\ effects' = effects \cup {f_file}
              /\ pc' = "aborted"
              /\ UNCHANGED <<metaFiles, file_count, todo>>
           \/ /\ pc' = "aborted"
              /\ UNCHANGED <<binFiles, metaFiles, file_count, effects, todo>>
    /\ UNCHANGED <<fn, policy, run, seenDisk, seen, fetched_count, html_count, seedIdx, pages,
                   pageIdx, html_path, out_links, dl, htmlFiles, log, fetch, seedSnap,
                   verdict, skipped, cur, ckpts, seenLoaded, processed, processedBefore>>

\* line 365: the file links of the page are exhausted.
LinksDone ==
    /\ pc = "links" /\ todo = <<>>
    /\ pc' = "log"
    /\ UNCHANGED <<fn, policy, run, seenDisk, mem, loopv, store, log, hist>>


\* ------------------------------------------------------------ direct file
\* lines 398-401: the page carries no body; the URL itself is fetched.
DirectDownload ==
    /\ pc = "direct_download"
    /\ \E r \in DownloadResults(CurPage.url) :
        /\ dl' = r
        /\ pc' = IF r.content = "" THEN "direct_empty" ELSE "direct_save"
    /\ effects' = effects \cup {Effect(CurPage.url, "download", CurPage.url)}
    /\ cur' = [cur EXCEPT !.gets = @ + 1]
    /\ UNCHANGED <<fn, policy, run, seenDisk, mem, seedIdx, pages, pageIdx, html_path,
                   out_links, todo, store, log, fetch, seedSnap, verdict, skipped,
                   ckpts, seenLoaded, processed, processedBefore>>

\* lines 406-414: the record written when the direct download gave nothing.
EmptyMetaUnmarked(url, d) ==
    PageMeta(safe_filename(url, ".json"), url, d.status, d.ctype, NoPath, NoPath, <<>>, "")

EmptyMeta(url, d) ==
    PageMeta(safe_filename(url, ".json"), url, d.status, d.ctype, NoPath, NoPath, <<>>,
             "empty binary")

\* lines 402-418: the DirectFileError line, the "empty binary" sidecar, then
\* "continue": the status line and the checkpoint test below are skipped.
DirectEmpty ==
    /\ pc = "direct_empty"
    /\ LET line == LogLine("DirectFileError", CurPage.url)
           rec == EmptyMeta(CurPage.url, dl)
       IN  \/ /\ log' = Append(log, line)
              /\ metaFiles' = WriteMeta(metaFiles, rec)
              /\ effects' = effects \cup {Effect(CurPage.url, "log", CurPage.url),
                                          Effect(CurPage.url, "meta", CurPage.url)}
              /\ processed' = NowProcessed(CurPage.url)
              /\ cur' = [cur EXCEPT !.sidecars = @ + 1, !.ended = TRUE]
              /\ pageIdx' = pageIdx + 1
              /\ pc' = "pages"
           \/ /\ log' = Append(log, line)
              /\ effects' = effects \cup {Effect(CurPage.url, "log", CurPage.url)}
              /\ pc' = "aborted"
              /\ UNCHANGED <<metaFiles, processed, cur, pageIdx>>
           \/ /\ pc' = "aborted"
              /\ UNCHANGED <<log, metaFiles, effects, processed, cur, pageIdx>>
    /\ UNCHANGED <<fn, policy, run, seenDisk, mem, seedIdx, pages, html_path, out_links, todo,
                   dl, htmlFiles, binFiles, fetch, seedSnap, verdict, skipped, ckpts,
                   seenLoaded, processedBefore>>

\* lines 420-436: the body (the page's own or the downloaded one), then the
\* sidecar beside it, then the counter.
DirectSave ==
    /\ pc = "direct_save"
    /\ LET f_name == safe_filename(CurPage.url, pick_ext_by_ct(dl.ctype))
           f_file == Effect(CurPage.url, "file", CurPage.url)
           f_meta == Effect(CurPage.url, "meta", CurPage.url)
           rec == PageMeta(WithJson(f_name), CurPage.url, dl.status, dl.ctype, f_name,
                           NoPath, <<>>, "")
       IN  \/ /\ binFiles' = binFiles \cup {f_name}
              /\ metaFiles' = WriteMeta(metaFiles, rec)
              /\ file_count' = file_count + 1
              /\ effects' = effects \cup {f_file, f_meta}
              /\ processed' = NowProcessed(CurPage.url)
              /\ cur' = [cur EXCEPT !.sidecars = @ + 1]
              /\ pc' = "log"
           \/ /\ binFiles' = binFiles \cup {f_name}
              /\ effects' = effects \cup {f_file}
              /\ processed' = NowProcessed(CurPage.url)
              /\ pc' = "aborted"
              /\ UNCHANGED <<metaFiles, file_count, cur>>
           \/ /\ pc' = "aborted"
              /\ UNCHANGED <<binFiles, metaFiles, file_count, effects, processed, cur>>
    /\ UNCHANGED <<fn, policy, run, seenDisk, seen, fetched_count, html_count, loopv,
                   htmlFiles, log, fetch, seedSnap, verdict, skipped, ckpts, seenLoaded, processedBefore>>

\* ------------------------------------------------------------ log, Frontier
\* lines 439-440: the status line of the page.
LogAppend ==
    /\ pc = "log"
    /\ \/ /\ log' = Append(log, LogLine("status", CurPage.url))
          /\ effects' = effects \cup {Effect(CurPage.url, "log", CurPage.url)}
          /\ pc' = "ckpt"
       \/ /\ pc' = "aborted"
          /\ UNCHANGED <<log, effects>>
    /\ UNCHANGED <<fn, policy, run, seenDisk, mem, loopv, store, fetch, seedSnap, verdict,
                   skipped, cur, ckpts, seenLoaded, processed, processedBefore>>

\* SEEN_PATH.write_text inside try/except: on success the file holds the
\* Frontier; on an exception the file is as it was, or is left unreadable.
SeenWritten(disk, frontier) ==
    { [state |-> "ok", urls |-> frontier], disk, [state |-> "none", urls |-> {}] }

\* line 441: "if fetched_count % 100 == 0".
CheckpointDue(n) == n % CheckpointEvery = 0

\* lines 441-445: the periodic write of the Frontier, its failure swallowed.
CheckpointWrite ==
    /\ pc = "ckpt"
    /\ CheckpointDue(fetched_count)
    /\ seenDisk' \in SeenWritten(seenDisk, seen)
    /\ ckpts' = [ckpts EXCEPT !.periodic = @ + 1]
    /\ cur' = [cur EXCEPT !.ended = TRUE]
    /\ pageIdx' = pageIdx + 1
    /\ pc' = "pages"
    /\ UNCHANGED <<fn, policy, run, mem, seedIdx, pages, html_path, out_links, todo, dl,
                   store, log, fetch, seedSnap, effects, verdict, skipped, seenLoaded,
                   processed, processedBefore>>

\* line 441: the count is no multiple of the interval.
CheckpointSkip ==
    /\ pc = "ckpt"
    /\ ~CheckpointDue(fetched_count)
    /\ cur' = [cur EXCEPT !.ended = TRUE]
    /\ pageIdx' = pageIdx + 1
    /\ pc' = "pages"
    /\ UNCHANGED <<fn, policy, run, seenDisk, mem, seedIdx, pages, html_path, out_links, todo,
                   dl, store, log, fetch, seedSnap, effects, verdict, skipped, ckpts,
                   seenLoaded, processed, processedBefore>>

\* lines 447-451: the seeds are exhausted; the Frontier is written once more.
FinalPersist ==
    /\ pc = "seed" /\ seedIdx > Len(Seeds)
    /\ seenDisk' \in SeenWritten(seenDisk, seen)
    /\ ckpts' = [ckpts EXCEPT !.final = @ + 1]
    /\ pc' = "done"
    /\ UNCHANGED <<fn, policy, run, mem, loopv, store, log, fetch, seedSnap, effects,
                   verdict, skipped, cur, seenLoaded, processed, processedBefore>>

\* ------------------------------------------------------------ stopping
\* A process that has exited holds nothing in memory.
MemoryGone ==
    /\ seen' = {}
    /\ fetched_count' = 0 /\ file_count' = 0 /\ html_count' = 0
    /\ seedIdx' = 1 /\ pages' = <<>> /\ pageIdx' = 1
    /\ html_path' = NoPath /\ out_links' = <<>> /\ todo' = <<>> /\ dl' = NoDownload
    /\ log' = <<>>
    /\ fetch' = NoFetch /\ seedSnap' = NoSnap /\ effects' = {} /\ verdict' = NoVerdict
    /\ skipped' = NoSkip /\ cur' = NoCur
    /\ ckpts' = [periodic |-> 0, final |-> 0]
    /\ seenLoaded' = {}
    /\ processed' = {}
    /\ processedBefore' = processedBefore \cup processed

\* lines 460-464: KeyboardInterrupt ends the process wherever main stands;
\* nothing is written on the way out.
Interrupt ==
    /\ Running
    /\ pc' = "interrupted"
    /\ MemoryGone
    /\ UNCHANGED <<fn, policy, run, seenDisk, store>>

\* The program is started again: memory is fresh, the disk is as it was left,
\* and domains.yaml may have been edited in between.
Restart ==
    /\ ~Running
    /\ run < MaxRuns
    /\ run' = run + 1
    /\ pc' = "load"
    /\ MemoryGone
    /\ policy' \in Policies
    /\ UNCHANGED <<fn, seenDisk, store>>

Next ==
    \/ LoadSeen \/ Render \/ RenderRaises \/ RenderLog \/ Fallback \/ SeedDone
    \/ SkipMissing \/ SkipSeen \/ SkipFiltered \/ Accept
    \/ HtmlWrite \/ PageMetaWrite \/ Download \/ DlLog \/ DlSave \/ LinksDone
    \/ DirectDownload \/ DirectEmpty \/ DirectSave
    \/ LogAppend \/ CheckpointWrite \/ CheckpointSkip \/ FinalPersist
    \/ Interrupt \/ Restart

Spec == Init /\ [][Next]_vars


\* ------------------------------------------------------------ helper functions
\* The helpers of run_crawl.py run on their own, each on an input drawn from
\* a bounded set: pick_ext_by_ct on a content-type, page_links on a page,
\* expand_seeds_via_sitemap on a seed list with the sitemap probes answering
\* as they may.

\* The markers pick_ext_by_ct looks for in the lower-cased content-type.
Markers == {"pdf", "msword", "officedocument.wordprocessingml", "html",
            "spreadsheet", "excel", "presentation", "powerpoint"}

\* None or "", or a string holding any set of the markers (none: {}).
ContentTypes == {NoCT} \cup SUBSET Markers

\* Entries of a link field that page_links drops: a blank string, a non-string.
lBlank == [host |-> <<>>, path |-> <<>>, ext |-> "blank"]
lNonStr == [host |-> <<>>, path |-> <<>>, ext |-> "nonstr"]

SeqsUpTo(S, n) == UNION {[1..k -> S] : k \in 0..n}

\* Pages with the native fields out_links and links, the scanned href/src
\* values, and with or without HTML text.
LinkPages ==
    { [Page(uA, {"html"}, h, NoText, o, r) EXCEPT !.links = l] :
        o \in SeqsUpTo({lRelB, lAbsX, lBlank, lNonStr}, MaxLinks),
        l \in {<<>>, <<lAbsX>>, <<lRelB, lBlank>>},
        r \in {<<>>, <<lRelB>>, <<lNav, lAbsX>>},
        h \in {"T", NoText} }

SeedLists == SeqsUpTo({uA, uZ}, MaxSeeds)

\* line 231: the well-known sitemap paths probed under each seed.
TryPaths == <<"/sitemap.xml", "/sitemap_index.xml", "/sitemap-index.xml", "/sitemap">>

\* What a probe may give: an exception, a status other than 200, a 200 that
\* is not XML, or a 200 XML document with its <loc> entries.
SitemapResponses(path) ==
    { [kind |-> "raise", locs |-> <<>>],
      [kind |-> "status", locs |-> <<>>],
      [kind |-> "notxml", locs |-> <<>>],
      [kind |-> "xml", locs |-> IF path = 1 THEN <<uY, uQ, uY>> ELSE <<uP, uA>>] }

\* lines 233-235: ok(u).
SitemapOk(u, allowed_domains) ==
    AnySeq(allowed_domains, LAMBDA d : u.host = d \/ EndsWithDot(u.host, d))

\* list(dict.fromkeys(s)): the first occurrence of each element, in order.
RECURSIVE FromKeys(_)
FromKeys(s) ==
    IF s = <<>> THEN <<>>
    ELSE <<Head(s)>> \o FromKeys(SelectSeq(Tail(s), LAMBDA x : x # Head(s)))

expand_merge_filtered(seeds, extra, allowed_domains) ==
    FromKeys(SelectSeq(seeds \o extra, LAMBDA u : SitemapOk(u, allowed_domains)))

\* lines 248-249: extra filtered by ok, merged behind the seeds.
expand_merge(seeds, extra, allowed_domains) ==
    FromKeys(seeds \o SelectSeq(extra, LAMBDA u : SitemapOk(u, allowed_domains)))

FnStart(name) == [NoFn EXCEPT !.name = name]

FnInputs ==
    {[FnStart("pick_ext_by_ct") EXCEPT !.ct = c] : c \in ContentTypes}
      \cup {[FnStart("page_links") EXCEPT !.page = p] : p \in LinkPages}
      \cup {[FnStart("expand_seeds_via_sitemap") EXCEPT !.seeds = sl] : sl \in SeedLists}

InitFn == ProgInit /\ fn \in FnInputs

PickExt ==
    /\ fn.name = "pick_ext_by_ct" /\ ~fn.done
    /\ fn' = [fn EXCEPT !.ext = pick_ext_by_ct(fn.ct), !.done = TRUE]
    /\ UNCHANGED prog

PageLinks ==
    /\ fn.name = "page_links" /\ ~fn.done
    /\ fn' = [fn EXCEPT !.list = page_links(fn.page), !.done = TRUE]
    /\ UNCHANGED prog

\* lines 238-247: one GET of root + path; only a 200 XML answer adds its
\* <loc> entries to extra, an exception is passed over.
SitemapProbe ==
    /\ fn.name = "expand_seeds_via_sitemap" /\ ~fn.done
    /\ fn.root <= Len(fn.seeds)
    /\ \E r \in SitemapResponses(fn.path) :
          fn' = [fn EXCEPT !.extra = IF r.kind = "xml" THEN @ \o r.locs ELSE @,
                           !.last = r.kind,
                           !.before = Len(fn.extra),
                           !.probes = @ + 1,
                           !.path = IF @ = Len(TryPaths) THEN 1 ELSE @ + 1,
                           !.root = IF fn.path = Len(TryPaths) THEN @ + 1 ELSE @]
    /\ UNCHANGED prog

\* lines 248-251: the roots are exhausted; the merged list is returned.
SitemapMerge ==
    /\ fn.name = "expand_seeds_via_sitemap" /\ ~fn.done
    /\ fn.root > Len(fn.seeds)
    /\ fn' = [fn EXCEPT !.list = expand_merge(fn.seeds, fn.extra, policy.allowed_domains),
                        !.done = TRUE]
    /\ UNCHANGED prog

NextFn == PickExt \/ PageLinks \/ SitemapProbe \/ SitemapMerge

SpecFn == InitFn /\ [][NextFn]_vars


\* ------------------------------------------------------------ properties
\* Positions of main inside the page loop of a seed, after its fetch stage.
PageStage == {"pages", "html_write", "page_meta", "links", "dl_log", "dl_save",
              "direct_download", "direct_empty", "direct_save", "log", "ckpt"}

\* Positions at which the sidecar of the current page has been written.
AfterClassification == {"links", "dl_log", "dl_save", "log", "ckpt"}

KindsFor(u) == {e.kind : e \in {x \in effects : x.owner = u}}

\* C1: every side effect a run produces while processing an accepted page
\* URL (HTML body, file body, sidecar, download of the URL or of its file
\* links, log line) finds the URL already in the in-memory Frontier.
C1_FrontierBeforeSideEffects == \A e \in effects : e.owner \in seen

C1_Witness ==
    \E u \in seen \ seenLoaded : {"html", "meta", "download", "log"} \subseteq KindsFor(u)

\* C2: once an earlier run has processed U, whichever way that run stopped,
\* the next run's loaded Frontier contains U and the run does not process U.
C2_RestartSafety ==
    (run > 1 /\ pc # "load" /\ Running) =>
        /\ processedBefore \subseteq seen
        /\ processedBefore \cap processed = {}

C4_ExactlyOneSidecar ==
    /\ cur.sidecars <= 1
    /\ (cur.ended \/ (pc \in AfterClassification /\ cur.url # NoUrl)) =>
          /\ cur.sidecars = 1
          /\ \E m \in metaFiles : m.url = cur.url

C4_Witness ==
    /\ cur.ended
    /\ \E m \in metaFiles : m.url = cur.url /\ m.notes = "empty binary"

\* C5: per seed there is one render attempt and at most one fallback
\* attempt; once the seed's pages are being looped over, the fallback has
\* been invoked once if the render raised or gave no pages, and not at all
\* if it gave a page.
C5_OneRenderOneFallback ==
    /\ fetch.render <= 1
    /\ fetch.fallback <= 1
    /\ pc \in PageStage =>
          /\ fetch.render = 1
          /\ fetch.fallback = IF fetch.outcome \in {"raised", "empty"} THEN 1 ELSE 0

C5_Witness ==
    /\ pc = "pages"
    /\ fetch.outcome = "raised" /\ fetch.fallback = 1 /\ fetch.skipped

\* C6: a seed whose render gave nothing and whose fallback failed leaves the
\* Frontier, the counters and the artifacts as they were and has a line in
\* the attempt log; exactly one line when the render raised.
C6_SkipSeedLogged ==
    (pc = "pages" /\ fetch.skipped) =>
        /\ seen = seedSnap.seen
        /\ <<fetched_count, file_count, html_count>> = seedSnap.counts
        /\ <<htmlFiles, binFiles, metaFiles>> = seedSnap.store
        /\ Len(log) > 0
        /\ fetch.outcome = "raised" => Len(log) = 1

\* C7: the policy accepts a not-yet-seen URL exactly when the include list
\* is empty or matches and no exclude pattern matches, or the host is, or is
\* a subdomain of, an allowed domain.
PatternsPass(url, pol) ==
    /\ pol.include = <<>> \/ \E i \in 1..Len(pol.include) : ReSearch(pol.include[i], url)
    /\ ~\E j \in 1..Len(pol.exclude) : ReSearch(pol.exclude[j], url)

HostListed(url, pol) ==
    \E k \in 1..Len(pol.allowed_domains) :
        \/ url.host = pol.allowed_domains[k]
        \/ EndsWithDot(url.host, pol.allowed_domains[k])

C7_PolicyDecision ==
    verdict.url # NoUrl =>
        (verdict.accepted <=> (PatternsPass(verdict.url, policy) \/ HostListed(verdict.url, policy)))

C7_Witness ==
    /\ verdict.accepted
    /\ \E j \in 1..Len(policy.exclude) : ReSearch(policy.exclude[j], verdict.url)
    /\ HostListed(verdict.url, policy)

\* C8: a run stops early only by an interrupt: no failure inside it, a
\* failed write included, ends it before its normal end.
C8_NoFailureFatal == ~Running => pc \in {"done", "interrupted"}

\* C9: between pages the number of periodic Frontier writes equals the
\* number of multiples of the interval the accepted-URL counter has reached,
\* and a run that ended normally has written the Frontier once more.
C9_CheckpointEveryN ==
    /\ pc = "pages" => ckpts.periodic = fetched_count \div CheckpointEvery
    /\ pc = "done" => ckpts.final = 1

\* C10: every URL a body or a sidecar is persisted for, page or file link,
\* is one the Policy Evaluator accepts.
C10_PersistedWereAccepted ==
    \A e \in effects :
        e.kind \in {"html", "file", "meta", "linkfile", "linkmeta"} =>
            PolicyAllowed(e.target, policy)

\* C11: every artifact persisted for a URL has a name that depends on the
\* URL alone: the files directory never holds two bodies of one URL, and the
\* meta directory never holds two sidecars of one URL.
C11_NameFromUrlAlone ==
    /\ \A f \in binFiles : \A g \in binFiles : f.hash = g.hash => f = g
    /\ \A m \in metaFiles : \A n \in metaFiles : m.url = n.url => m.name = n.name

\* C12: when the processing of a direct-file URL with no body on the page
\* ends after a download that gave nothing (empty body or failure), the meta
\* directory holds the URL's sidecar with notes "empty binary" and no
\* file_path, and the processing has saved no file.
C12_EmptyBinarySidecar ==
    (cur.ended /\ cur.gets = 1 /\ dl.content = "") =>
        /\ \E m \in metaFiles :
              /\ m.name = safe_filename(cur.url, ".json") /\ m.url = cur.url
              /\ m.notes = "empty binary" /\ m.file_path = NoPath
        /\ ~\E e \in effects : e.kind = "file"
        /\ file_count = cur.files

C12_Witness ==
    /\ cur.ended /\ cur.gets = 1 /\ dl = NoDownload
    /\ \E m \in metaFiles : m.url = cur.url /\ m.status = 0 /\ m.notes = "empty binary"

\* The file link whose download is in hand.
LinkInHand == IF todo # <<>> THEN urljoin(CurPage.url, Head(todo)) ELSE NoUrl

\* The file links of the current page whose download gave nothing and whose
\* handling is over (not under way, and not cut short by a raised write).
EmptyLinks ==
    {e.target : e \in {x \in effects : x.kind = "linkempty"}}
        \ (IF pc \in {"dl_log", "dl_save", "aborted"} THEN {LinkInHand} ELSE {})

\* C13: a file link whose download gave an empty body or failed has no file
\* and no sidecar written, has one FileError line in the log, leaves the file
\* counter where the saved links put it, the later links of the page are
\* still downloaded, and the page ends with its own sidecar and log line.
C13_EmptyLinkSkipped ==
    /\ \A f \in EmptyLinks :
          /\ ~\E e \in effects : e.kind \in {"linkfile", "linkmeta"} /\ e.target = f
          /\ Cardinality({i \in 1..Len(log) : log[i] = LogLine("FileError", f)}) = 1
    /\ (pc \in {"links", "log", "ckpt"} /\ cur.gets = 0 /\ page_is_html(CurPage)) =>
          /\ file_count = cur.files
                + Cardinality({e \in effects : e.kind = "linkmeta"})
          /\ \A e \in effects : e.kind = "linkmeta" => e.target \notin EmptyLinks
    /\ (pc \in {"log", "ckpt"} /\ page_is_html(CurPage)) =>
          \A l \in {todoAll \in {urljoin(CurPage.url, out_links[i]) : i \in 1..Len(out_links)} :
                        looks_like_file(todoAll, policy.file_exts)} :
              \E e \in effects : e.kind = "download" /\ e.target = l
    /\ (cur.ended /\ EmptyLinks # {}) =>
          {"meta", "log"} \subseteq KindsFor(cur.url)

C13_Witness ==
    /\ cur.ended
    /\ urljoin(uA, lRelB) \in EmptyLinks
    /\ \E e \in effects : e.kind = "linkmeta" /\ e.target = lAbsX
    /\ file_count = cur.files + 1

\* C14: when the processing of an accepted page URL has ended, the log holds
\* exactly one line for it that carries the URL and the status.
C14_OneStatusLine ==
    cur.ended =>
        Cardinality({i \in 1..Len(log) : log[i] = LogLine("status", cur.url)}) = 1

\* C15: the Frontier always contains the set loaded at startup and has the
\* loaded size plus the accepted-URL counter, and while a run is under way
\* it changes only by the insertion of the current page's URL, not yet in it
\* and accepted by the policy.
C15_InsertOnly ==
    /\ [](/\ seenLoaded \subseteq seen
          /\ Cardinality(seen) = Cardinality(seenLoaded) + fetched_count)
    /\ [][(pc # "load" /\ pc' \notin {"load", "interrupted"}) =>
             \/ seen' = seen /\ fetched_count' = fetched_count
             \/ /\ pc = "pages" /\ pageIdx <= Len(pages)
                /\ CurPage.url # NoUrl /\ CurPage.url \notin seen
                /\ PatternsPass(CurPage.url, policy) \/ HostListed(CurPage.url, policy)
                /\ seen' = seen \cup {CurPage.url}
                /\ fetched_count' = fetched_count + 1]_vars

C15_Witness ==
    /\ seenLoaded # {} /\ fetched_count > 0
    /\ skipped.why = "seen" /\ verdict.accepted
    /\ \E e \in effects : e.kind = "linkfile"

\* C16: for an accepted navigable page past its classification, the HTML
\* body was written exactly when the HTML text is non-empty, the page's
\* sidecar is on disk, its html_path is the body's name exactly when the
\* body was written, and its out_links is the harvested list, every entry
\* as it appeared on the page (a relative link stays relative).
C16_NavigablePage ==
    (pc \in AfterClassification /\ cur.url # NoUrl /\ page_is_html(CurPage)) =>
        LET written == "html" \in KindsFor(cur.url)
            raw == {CurPage.out_links[i] : i \in 1..Len(CurPage.out_links)}
                     \cup {CurPage.links[i] : i \in 1..Len(CurPage.links)}
                     \cup {CurPage.hrefs[i] : i \in 1..Len(CurPage.hrefs)}
        IN  /\ written <=> page_html_text(CurPage) \notin {NoText, ""}
            /\ written => safe_filename(cur.url, ".html") \in htmlFiles
            /\ \E m \in metaFiles :
                  /\ m.name = safe_filename(cur.url, ".json") /\ m.url = cur.url
                  /\ m.html_path = IF written THEN safe_filename(cur.url, ".html")
                                   ELSE NoPath
                  /\ m.out_links = out_links
                  /\ m.out_links = page_links(CurPage)
                  /\ \A i \in 1..Len(m.out_links) : m.out_links[i] \in raw

C16_Witness ==
    /\ pc = "ckpt" /\ CurPage = pA
    /\ \E m \in metaFiles :
          /\ m.url = uA /\ m.html_path = safe_filename(uA, ".html")
          /\ m.out_links = <<lRelB, lAbsX, lNav>>

\* Positions of main on the direct-file path and after it.
DirectStage == {"direct_download", "direct_empty", "direct_save", "log", "ckpt"}

\* C18: the URL of an accepted page is fetched afresh at most once; never for
\* a navigable page, never for a direct-file page that carries a body, whose
\* body is persisted under the page's content-type and status, and exactly
\* once for a direct-file page that carries none.
C18_BodyOrOneDownload ==
    /\ cur.gets <= 1
    /\ (pc \in PageStage \ {"pages"} /\ page_is_html(CurPage)) => cur.gets = 0
    /\ (pc \in DirectStage /\ ~page_is_html(CurPage)) =>
          IF HasBody(CurPage)
          THEN /\ cur.gets = 0
               /\ pc \in {"log", "ckpt"} =>
                     \E m \in metaFiles :
                        /\ m.url = cur.url
                        /\ m.content_type = page_content_type(CurPage)
                        /\ m.status = CurPage.status
                        /\ m.file_path = safe_filename(cur.url,
                                            pick_ext_by_ct(page_content_type(CurPage)))
                        /\ m.file_path \in binFiles
          ELSE cur.gets = IF pc = "direct_download" THEN 0 ELSE 1

C18_Witness ==
    /\ pc = "log" /\ CurPage = pQ /\ cur.gets = 0
    /\ safe_filename(uQ, ".pdf") \in binFiles

\* The marker families in priority order, and their extensions.
Families == << {"pdf"}, {"msword", "officedocument.wordprocessingml"}, {"html"},
               {"spreadsheet", "excel"}, {"presentation", "powerpoint"} >>

FamilyExt == <<".pdf", ".docx", ".html", ".xlsx", ".pptx">>

\* C17: pick_ext_by_ct returns the extension of the first family, in the
\* order pdf, Word, html, spreadsheet/Excel, presentation/PowerPoint, one of
\* whose markers the content-type holds, and .bin when it holds none or is
\* None or "".
C17_ExtByPriority ==
    (fn.name = "pick_ext_by_ct" /\ fn.done) =>
        LET hits == {i \in 1..Len(Families) : fn.ct # NoCT /\ Families[i] \cap fn.ct # {}}
        IN  IF hits = {} THEN fn.ext = ".bin"
            ELSE \E i \in hits : (\A k \in hits : i <= k) /\ fn.ext = FamilyExt[i]

C17_Witness ==
    /\ fn.name = "pick_ext_by_ct" /\ fn.done
    /\ {"html", "pdf", "excel"} \subseteq fn.ct /\ fn.ext = ".pdf"

\* C19: page_links returns the entries of the first non-empty native link
\* field only, followed by the scanned href/src values, non-strings and
\* blanks dropped, each link once, in first-seen order.
C19_FirstNativeFieldOnly ==
    (fn.name = "page_links" /\ fn.done) =>
        LET first == IF fn.page.out_links # <<>> THEN fn.page.out_links
                     ELSE fn.page.links
            scanned == IF page_html_text(fn.page) # NoText THEN fn.page.hrefs ELSE <<>>
        IN  fn.list = Dedup(first \o scanned, {})

Range(sq) == {sq[i] : i \in 1..Len(sq)}

FirstIdx(sq, x) == CHOOSE i \in 1..Len(sq) : sq[i] = x /\ \A k \in 1..(i - 1) : sq[k] # x

\* C20: the list expand_seeds_via_sitemap returns has no duplicate, holds
\* every seed and, besides the seeds, exactly the discovered locations on an
\* allowed host; the seeds come first in their original order, the
\* locations after them in discovery order; every probe was made, and a
\* probe that raised or was no 200 XML answer added nothing.
C20_SeedExpansion ==
    /\ (fn.name = "expand_seeds_via_sitemap" /\ fn.last \notin {"none", "xml"}) =>
          Len(fn.extra) = fn.before
    /\ (fn.name = "expand_seeds_via_sitemap" /\ fn.done) =>
          LET out == fn.list
              sds == Range(fn.seeds)
              locs == {u \in Range(fn.extra) : HostListed(u, policy)}
          IN  /\ fn.probes = Len(fn.seeds) * Len(TryPaths)
              /\ \A i \in 1..Len(out) : \A j \in 1..Len(out) : out[i] = out[j] => i = j
              /\ Range(out) = sds \cup locs
              /\ \A i \in 1..Len(out) : \A j \in (i + 1)..Len(out) :
                    IF out[i] \in sds
                    THEN out[j] \in sds =>
                            FirstIdx(fn.seeds, out[i]) < FirstIdx(fn.seeds, out[j])
                    ELSE /\ out[j] \notin sds
                         /\ FirstIdx(fn.extra, out[i]) < FirstIdx(fn.extra, out[j])

C20_Witness ==
    /\ fn.name = "expand_seeds_via_sitemap" /\ fn.done
    /\ fn.seeds = <<uZ, uA>> /\ fn.last = "raise"
    /\ fn.list = <<uZ, uA, uY, uP>>

=============================================================================
